---- MODULE Spec2Model ----
(***************************************************************************)
(* Model of waylandify / lbdm: the Exec-line flag merge, the .desktop      *)
(* rewriter, the per-file sync and the PWA file discovery.                 *)
(*                                                                         *)
(* A Go string is modelled as a sequence of runes; a rune is a one-        *)
(* character TLA+ string, except Wide, which stands for any rune whose     *)
(* UTF-8 encoding is two bytes long (such as U+00E9).                      *)
(***************************************************************************)
EXTENDS Integers, Sequences, FiniteSets, TLC

VARIABLES
    cmd,        \* merge: the Exec command handed to updateExecCommand
    flags,      \* the desired flag list (flagsToAdd / flags)
    out,        \* merge: result of updateExecCommand(cmd, flags)
    out2,       \* merge: result of updateExecCommand(out, flags)
    mpc,        \* merge: "input", "merged" or "remerged"
    content,    \* rewriter: the bytes handed to modifyDesktopContent
    rout,       \* rewriter: the bytes it returned
    rcount,     \* rewriter: the count it returned
    rpc,        \* rewriter: "input" or "done"
    sys,        \* sync: the file in the system directory, its bytes or Nil
    usr,        \* sync: the file in the user directory, its bytes or Nil
    usr0,       \* sync: usr when the current call of processDesktopFile began
    spc,        \* sync: "start", "ready", "seeded" or "done"
    ops,        \* sync: the file system calls of the current call, in order
    outcome,    \* sync: how the current call ended, None while it runs
    prevOutcome, \* sync: how the call before it ended
    runs,       \* sync: the number of the current call
    userState,  \* discovery: os.ReadDir(userDir) gives "ok", "absent" or "unreadable"
    userFiles,  \* discovery: names of the non-directory entries of the user directory
    userSubdirs, \* discovery: names of the entries of it that are directories
    sysState,   \* discovery: os.ReadDir(systemDir) gives "ok", "absent" or "unreadable"
    sysFiles,   \* discovery: names of the non-directory entries of the system directory
    patterns,   \* discovery: the include patterns, in order
    excludePatterns, \* discovery: the exclude patterns, in order
    pwaFiles,   \* discovery: the list returned
    derr,       \* discovery: TRUE when an error is returned
    dpc,        \* discovery: "input", "user" (lbdm) or "both" (legacy main.go)
    browsers,   \* run: config.Browsers, the browser profiles in order
    bpos,       \* run: index of the browser the loop of main is at
    queue,      \* run: allFilesToProcess of that browser
    qpos,       \* run: index of the next file of queue
    fs,         \* run: for each file name its system and its user file
    fs0,        \* run: fs when the run began
    log,        \* run: the calls of processDesktopFile made so far, in order
    phase,      \* run: "browser", "files" or "done"
    setNames,   \* flag resolution: the flag-set keys of a browser, in order
    setTable,   \* flag resolution: the flag sets by key
    combined,   \* flag resolution: the list getCombinedFlags returned
    parseResult, \* tokenizer: what parseCommandLine(cmd) returned
    tokList,    \* round trip: a list of tokens
    joined,     \* round trip: the tokens serialized as updateExecCommand does
    reparsed,   \* round trip: what parseCommandLine(joined) returned
    legacyOut,  \* legacy rewrite: the command after removal and insertion
    fpc         \* which function was applied, "input" before

mergeVars == <<cmd, out, out2, mpc>>
rewriteVars == <<content, rout, rcount, rpc>>
syncVars == <<sys, usr, usr0, spc, ops, outcome, prevOutcome, runs>>
discVars == <<userState, userFiles, userSubdirs, sysState, sysFiles,
              patterns, excludePatterns, pwaFiles, derr, dpc>>
runVars == <<browsers, bpos, queue, qpos, fs, fs0, log, phase>>
funVars == <<setNames, setTable, combined, parseResult, tokList, joined, reparsed,
             legacyOut, fpc>>
vars == <<cmd, flags, out, out2, mpc, content, rout, rcount, rpc,
          sys, usr, usr0, spc, ops, outcome, prevOutcome, runs,
          userState, userFiles, userSubdirs, sysState, sysFiles,
          patterns, excludePatterns, pwaFiles, derr, dpc,
          browsers, bpos, queue, qpos, fs, fs0, log, phase,
          setNames, setTable, combined, parseResult, tokList, joined, reparsed,
          legacyOut, fpc>>

\* ------------------------------------------------------------------ runes
Wide == "U+00E9"
DQ == "\""
SQ == "'"
SP == " "
TAB == "\t"
CR == "\r"
LF == "\n"
None == "none"
\* no string and no file: a value that is no rune sequence of the model
Nil == <<"nil">>

\* utf8.RuneLen: the number of bytes the rune takes in the Go string
RuneLen(r) == IF r = Wide THEN 2 ELSE 1

\* len(s) of a Go string: bytes, not runes (every rune is one byte, Wide is two)
ByteLen(s) == Len(s) + Cardinality({i \in 1..Len(s) : s[i] = Wide})

\* unicode.IsSpace, on the runes of the model
IsSpace(r) == r \in {SP, TAB, CR, LF}

\* ---------------------------------------------------------------- strings
Last(s) == s[Len(s)]
Front(s) == SubSeq(s, 1, Len(s) - 1)

\* strings.HasPrefix
HasPrefix(s, p) == Len(s) >= Len(p) /\ SubSeq(s, 1, Len(p)) = p

\* strings.Contains(s, " ") for a one-rune needle
ContainsRune(s, r) == \E i \in 1..Len(s) : s[i] = r

\* strings.TrimSpace: drop the leading and the trailing white space
TrimSpace(s) ==
    LET keep == {i \in 1..Len(s) : ~IsSpace(s[i])}
    IN  IF keep = {} THEN <<>>
        ELSE SubSeq(s, CHOOSE i \in keep : \A j \in keep : i <= j,
                       CHOOSE i \in keep : \A j \in keep : j <= i)

\* strings.Fields: the maximal runs of non-space runes, in order
Fields(s) ==
    LET starts == {i \in 1..Len(s) : ~IsSpace(s[i]) /\ (i = 1 \/ IsSpace(s[i - 1]))}
        endOf(i) == CHOOSE j \in i..Len(s) :
                        /\ \A m \in i..j : ~IsSpace(s[m])
                        /\ (j = Len(s) \/ IsSpace(s[j + 1]))
        nth(k) == CHOOSE i \in starts : Cardinality({j \in starts : j < i}) = k - 1
    IN  [k \in 1..Cardinality(starts) |-> SubSeq(s, nth(k), endOf(nth(k)))]

RECURSIVE Join(_, _)
\* strings.Join
Join(parts, sep) ==
    IF parts = <<>> THEN <<>>
    ELSE IF Len(parts) = 1 THEN parts[1]
    ELSE parts[1] \o sep \o Join(Tail(parts), sep)

\* -------------------------------------------------------- parseCommandLine
\* the loop body inside a quoted region (lines 29-34)
quotedStep(st, r) ==
    IF r = st.quoteChar
    THEN [st EXCEPT !.inQuotes = FALSE]
    ELSE [st EXCEPT !.currentArg = Append(@, r)]

\* the loop body outside quotes: the switch of lines 36-47
plainStep(st, r) ==
    IF r \in {DQ, SQ}
    THEN [st EXCEPT !.inQuotes = TRUE, !.quoteChar = r]
    ELSE IF r = SP
         THEN IF Len(st.currentArg) > 0
              THEN [st EXCEPT !.args = Append(@, st.currentArg), !.currentArg = <<>>]
              ELSE st
         ELSE [st EXCEPT !.currentArg = Append(@, r)]

\* the flush "for the very last character" (lines 50-53): i is the BYTE offset
\* at which the rune starts (Go's range over a string), n is len(command) in bytes
parseFlush(st, i, n) ==
    IF i = n - 1 /\ Len(st.currentArg) > 0
    THEN [st EXCEPT !.args = Append(@, st.currentArg)]
    ELSE st

RECURSIVE parseLoop(_, _, _, _)
\* the for loop of lines 28-54; k: index of the rune, i: its byte offset
parseLoop(command, k, i, st) ==
    IF k > Len(command) THEN st
    ELSE IF st.inQuotes
         THEN parseLoop(command, k + 1, i + RuneLen(command[k]),
                        parseFlush(quotedStep(st, command[k]), i, ByteLen(command)))
         ELSE parseLoop(command, k + 1, i + RuneLen(command[k]),
                        parseFlush(plainStep(st, command[k]), i, ByteLen(command)))

\* parseCommandLine: [err |-> TRUE] for an unclosed quote, else the arguments
parseCommandLine(command) ==
    LET st == parseLoop(command, 1, 0,
                        [args |-> <<>>, currentArg |-> <<>>,
                         inQuotes |-> FALSE, quoteChar |-> None])
    IN  IF st.inQuotes THEN [err |-> TRUE, args |-> <<>>]
        ELSE [err |-> FALSE, args |-> st.args]

\* ------------------------------------------------------- updateExecCommand
\* execParts without the fallback: no parts when parsing fails
execPartsNoFallback(execCmd) ==
    LET trimmedCmd == TrimSpace(execCmd)
        parsed == parseCommandLine(trimmedCmd)
    IN  IF parsed.err THEN <<>> ELSE parsed.args

\* lines 70-76: the token list, with the strings.Fields fallback
execParts(execCmd) ==
    LET trimmedCmd == TrimSpace(execCmd)
        parsed == parseCommandLine(trimmedCmd)
    IN  IF parsed.err THEN Fields(trimmedCmd) ELSE parsed.args

\* strings.HasPrefix(arg, "-")
isFlagArg(arg) == HasPrefix(arg, <<"-">>)

\* lines 86-94: the arguments that start with "-", in order
existingFlags(args) == SelectSeq(args, isFlagArg)

notFlagArg(arg) == ~isFlagArg(arg)

\* lines 86-94: the other arguments, in order
otherArgs(args) == SelectSeq(args, notFlagArg)

RECURSIVE addMissingUnmarked(_, _, _)
\* addMissing without line 107: an appended flag is not added to existingSet
addMissingUnmarked(final, existingSet, flagsToAdd) ==
    IF flagsToAdd = <<>> THEN final
    ELSE IF Head(flagsToAdd) \notin existingSet
         THEN addMissingUnmarked(Append(final, Head(flagsToAdd)), existingSet,
                                 Tail(flagsToAdd))
         ELSE addMissingUnmarked(final, existingSet, Tail(flagsToAdd))

RECURSIVE addMissing(_, _, _)
\* lines 104-109: append each flag that existingSet does not hold yet
addMissing(final, existingSet, flagsToAdd) ==
    IF flagsToAdd = <<>> THEN final
    ELSE LET flagToAdd == Head(flagsToAdd)
         IN  IF flagToAdd \notin existingSet
             THEN addMissing(Append(final, flagToAdd), existingSet \cup {flagToAdd},
                             Tail(flagsToAdd))
             ELSE addMissing(final, existingSet, Tail(flagsToAdd))

\* lines 97-109
finalFlags(existing, flagsToAdd) ==
    addMissing(existing, {existing[i] : i \in 1..Len(existing)}, flagsToAdd)

\* lines 82-115: executable, then the flags, then the other arguments
newParts(parts, flagsToAdd) ==
    LET executable == parts[1]
        args == Tail(parts)
    IN  <<executable>> \o finalFlags(existingFlags(args), flagsToAdd) \o otherArgs(args)

\* lines 118-122: re-quote an argument that contains a space
requote(part) ==
    IF ContainsRune(part, SP) /\ ~HasPrefix(part, <<DQ>>)
    THEN <<DQ>> \o part \o <<DQ>>
    ELSE part

\* lines 78-115: the token list the output is joined from; none for an empty command
mergedParts(execCmd, flagsToAdd) ==
    LET parts == execParts(execCmd)
    IN  IF Len(parts) = 0 THEN <<>> ELSE newParts(parts, flagsToAdd)

\* lines 117-124: re-quote and strings.Join(newParts, " ")
serialize(parts) == Join([i \in 1..Len(parts) |-> requote(parts[i])], <<SP>>)

updateExecCommand(execCmd, flagsToAdd) ==
    IF Len(flagsToAdd) = 0 THEN execCmd
    ELSE serialize(mergedParts(execCmd, flagsToAdd))

\* ---------------------------------------------------- modifyDesktopContent
\* bufio.ScanLines' dropCR: one trailing carriage return is not part of the line
dropCR(data) == IF data # <<>> /\ Last(data) = CR THEN Front(data) ELSE data

\* bufio.Scanner with ScanLines over the content: the text before each "\n",
\* and the text after the last "\n" when there is some, each without one
\* trailing "\r"
scanLines(data) ==
    LET lfs == {i \in 1..Len(data) : data[i] = LF}
        nthLF(k) == IF k = 0 THEN 0
                    ELSE CHOOSE i \in lfs : Cardinality({j \in lfs : j < i}) = k - 1
        n == Cardinality(lfs)
        rest == SubSeq(data, nthLF(n) + 1, Len(data))
        full == [k \in 1..n |-> dropCR(SubSeq(data, nthLF(k - 1) + 1, nthLF(k) - 1))]
    IN  IF rest = <<>> THEN full ELSE Append(full, dropCR(rest))

ExecKey == <<"E", "x", "e", "c", "=">>

\* execPattern `^(Exec=)(.*)$` finds a match in the line
isExecLine(line) == HasPrefix(line, ExecKey)

\* rewriteLine with the pattern `(Exec=)(.*)$`, without the ^ anchor: the first
\* "Exec=" anywhere in the line starts the command
rewriteLineUnanchored(line, flagList) ==
    LET at == {i \in 1..Len(line) : HasPrefix(SubSeq(line, i, Len(line)), ExecKey)}
        first == CHOOSE i \in at : \A j \in at : i <= j
    IN  IF at = {} THEN line
        ELSE ExecKey \o updateExecCommand(SubSeq(line, first + Len(ExecKey), Len(line)),
                                          flagList)

\* lines 129-135: the line that is written for a scanned line
rewriteLine(line, flagList) ==
    IF isExecLine(line)
    THEN ExecKey \o updateExecCommand(SubSeq(line, Len(ExecKey) + 1, Len(line)), flagList)
    ELSE line

\* writeLines as strings.Join(lines, "\n"): no "\n" after the last line
writeLinesJoined(lines) == Join(lines, <<LF>>)

RECURSIVE writeLines(_)
\* lines 136-138: out.WriteString(line + "\n") for each line
writeLines(lines) ==
    IF lines = <<>> THEN <<>>
    ELSE Head(lines) \o <<LF>> \o writeLines(Tail(lines))

\* modifyDesktopContent: the new content and modifiedCount
modifyDesktopContent(data, flagList) ==
    LET lines == scanLines(data)
    IN  [content |-> writeLines([i \in 1..Len(lines) |-> rewriteLine(lines[i], flagList)]),
         count |-> Cardinality({i \in 1..Len(lines) : isExecLine(lines[i])})]

\* ------------------------------------------------------------ merge inputs
MaxCmdLen == 3
MaxFlags == 2

\* all strings of at most n runes over the alphabet A
StrsUpTo(A, n) == UNION {[1..k -> A] : k \in 0..n}
\* all lists of at most n elements of S
ListsUpTo(S, n) == UNION {[1..k -> S] : k \in 0..n}

CmdAlphabet == {"a", "b", "-", SP, DQ, SQ, Wide, TAB}

BraveCmd == <<"/", "u", "s", "r", "/", "b", "i", "n", "/", "b", "r", "a", "v", "e", "-", "b", "r", "o", "w", "s", "e", "r", " ", "%", "U">>
BravePatched == <<"/", "u", "s", "r", "/", "b", "i", "n", "/", "b", "r", "a", "v", "e", "-", "b", "r", "o", "w", "s", "e", "r", " ", "-", "-", "o", "z", "o", "n", "e", "-", "p", "l", "a", "t", "f", "o", "r", "m", "=", "w", "a", "y", "l", "a", "n", "d", " ", "%", "U">>
OzoneFlag == <<"-", "-", "o", "z", "o", "n", "e", "-", "p", "l", "a", "t", "f", "o", "r", "m", "=", "w", "a", "y", "l", "a", "n", "d">>
UnclosedCmd == <<"/", "u", "s", "r", "/", "b", "i", "n", "/", "a", "p", "p", " ", "\"", "f", "o", "o">>
\* positional arguments interleaved with flags, one flag twice
InterleavedCmd == <<"x", " ", "b", " ", "-", " ", "a", " ", "-", "a", " ", "-", " ", "b", "a">>
\* a quoted argument that itself holds a quote character: x -a 'a "b a"'
NestedQuoteCmd == <<"x", " ", "-", "a", " ", "'", "a", " ", "\"", "b", " ", "a", "\"", "'">>

ScenarioCmds == {BraveCmd, BravePatched, UnclosedCmd, InterleavedCmd, NestedQuoteCmd}

FlagPool == {<<"-">>, <<"a">>, <<"-", SP, "a">>}

CmdInputs == StrsUpTo(CmdAlphabet, MaxCmdLen) \cup ScenarioCmds
FlagInputs == ListsUpTo(FlagPool, MaxFlags) \cup {<<OzoneFlag>>}

\* the parts of the state that a specification does not use
MergeIdle == cmd = <<>> /\ out = Nil /\ out2 = Nil /\ mpc = "idle"
RewriteIdle == content = <<>> /\ rout = Nil /\ rcount = 0 /\ rpc = "idle"
FunIdle ==
    /\ setNames = <<>> /\ setTable = <<>> /\ combined = <<>>
    /\ parseResult = Nil /\ tokList = <<>> /\ joined = Nil /\ reparsed = Nil
    /\ legacyOut = Nil /\ fpc = "idle"
RunIdle ==
    /\ browsers = <<>> /\ bpos = 0 /\ queue = <<>> /\ qpos = 0
    /\ fs = <<>> /\ fs0 = <<>> /\ log = <<>> /\ phase = "idle"
DiscIdle ==
    /\ userState = "absent" /\ userFiles = {} /\ userSubdirs = {}
    /\ sysState = "absent" /\ sysFiles = {}
    /\ patterns = <<>> /\ excludePatterns = <<>>
    /\ pwaFiles = <<>> /\ derr = FALSE /\ dpc = "idle"
SyncIdle ==
    /\ sys = Nil /\ usr = Nil /\ usr0 = Nil /\ spc = "idle" /\ ops = <<>>
    /\ outcome = None /\ prevOutcome = None /\ runs = 0

\* -------------------------------------------------------------- merge spec
MergeInit ==
    /\ cmd \in CmdInputs
    /\ flags \in FlagInputs
    /\ out = Nil
    /\ out2 = Nil
    /\ mpc = "input"
    /\ RewriteIdle
    /\ SyncIdle
    /\ DiscIdle
    /\ RunIdle
    /\ FunIdle

\* one call updateExecCommand(cmd, flags)
Merge ==
    /\ mpc = "input"
    /\ out' = updateExecCommand(cmd, flags)
    /\ mpc' = "merged"
    /\ UNCHANGED <<cmd, flags, out2, rewriteVars, syncVars, discVars, runVars, funVars>>

\* the next run: updateExecCommand on the command the first call returned
Remerge ==
    /\ mpc = "merged"
    /\ out2' = updateExecCommand(out, flags)
    /\ mpc' = "remerged"
    /\ UNCHANGED <<cmd, flags, out, rewriteVars, syncVars, discVars, runVars, funVars>>

MergeNext == Merge \/ Remerge

SpecMerge == MergeInit /\ [][MergeNext]_vars

\* ------------------------------------------------------ merge: the claims
\* The token sequence of a command as the tokenizer is described: split at
\* unquoted spaces, quote characters removed, the last token included; st.quote
\* is the open quote character or None.
tokenStep(st, r) ==
    IF st.quote # None
    THEN IF r = st.quote THEN [st EXCEPT !.quote = None]
         ELSE [st EXCEPT !.cur = Append(@, r)]
    ELSE IF r \in {DQ, SQ} THEN [st EXCEPT !.quote = r]
    ELSE IF r = SP
         THEN [st EXCEPT !.toks = IF st.cur = <<>> THEN @ ELSE Append(@, st.cur),
                         !.cur = <<>>]
    ELSE [st EXCEPT !.cur = Append(@, r)]

RECURSIVE tokenScan(_, _, _)
tokenScan(s, k, st) ==
    IF k > Len(s) THEN st
    ELSE IF st.quote # None
         THEN tokenScan(s, k + 1, tokenStep(st, s[k]))
         ELSE tokenScan(s, k + 1, tokenStep(st, s[k]))

\* [err |-> TRUE] when the input ends inside a quoted region
Tokenize(s) ==
    LET st == tokenScan(s, 1, [toks |-> <<>>, cur |-> <<>>, quote |-> None])
    IN  IF st.quote # None THEN [err |-> TRUE, args |-> <<>>]
        ELSE [err |-> FALSE,
              args |-> IF st.cur = <<>> THEN st.toks ELSE Append(st.toks, st.cur)]

\* the tokens of an Exec command: of the trimmed command, split at white space
\* when it ends inside a quoted region
CommandTokens(c) ==
    LET t == TrimSpace(c)
    IN  IF Tokenize(t).err THEN Fields(t) ELSE Tokenize(t).args

Count(x, s) == Cardinality({i \in 1..Len(s) : s[i] = x})
Range(s) == {s[i] : i \in 1..Len(s)}

RECURSIVE Dedup(_)
\* the list without the later occurrences of an element
Dedup(s) ==
    IF s = <<>> THEN <<>>
    ELSE LET f == Front(s)
         IN  IF Last(s) \in Range(f) THEN Dedup(f) ELSE Append(Dedup(f), Last(s))

merged == mpc # "input"

\* C1: merging twice with the same desired flags gives the same string as
\* merging once.
MergeIdempotent == mpc = "remerged" => out2 = out

heldAtMostOnce(f, toks) ==
    \/ Count(f, toks) = 0
    \/ Count(f, toks) = 1 /\ isFlagArg(f) /\ Count(f, Tail(toks)) = 1

flagRegion(toks, desired) ==
    LET have == SelectSeq(Tail(toks), isFlagArg)
        missing(f) == f \notin Range(have)
    IN  have \o SelectSeq(Dedup(desired), missing)

\* C3: the output is the executable, then the command's "-" tokens in order,
\* then the desired flags no existing flag equals, in desired order.
FlagRegion ==
    (merged /\ flags # <<>> /\ CommandTokens(cmd) # <<>>) =>
        LET toks == CommandTokens(cmd)
            want == <<toks[1]>> \o flagRegion(toks, flags)
            got == mergedParts(cmd, flags)
        IN  /\ Len(got) >= Len(want)
            /\ SubSeq(got, 1, Len(want)) = want
            /\ (out = serialize(want) \/ HasPrefix(out, serialize(want) \o <<SP>>))

\* C4: the tokens after the executable that do not begin with "-" are the last
\* tokens of the output, all of them, in their order, after every flag.
PositionalsKept ==
    (merged /\ flags # <<>> /\ CommandTokens(cmd) # <<>>) =>
        LET pos == SelectSeq(Tail(CommandTokens(cmd)), notFlagArg)
            got == mergedParts(cmd, flags)
            n == Len(got) - Len(pos)
        IN  /\ n >= 1
            /\ SubSeq(got, n + 1, Len(got)) = pos
            /\ \A i \in 2..n : isFlagArg(got[i]) \/ got[i] \in Range(flags)
            /\ out = serialize(got)

\* C3 and C4 relative to the token list that updateExecCommand itself obtains
\* (execParts): they differ from the above only where parseCommandLine loses
\* the last token.
FlagRegionOfParts ==
    (merged /\ flags # <<>> /\ execParts(cmd) # <<>>) =>
        LET toks == execParts(cmd)
            want == <<toks[1]>> \o flagRegion(toks, flags)
            got == mergedParts(cmd, flags)
        IN  Len(got) >= Len(want) /\ SubSeq(got, 1, Len(want)) = want

PositionalsOfPartsKept ==
    (merged /\ flags # <<>> /\ execParts(cmd) # <<>>) =>
        LET pos == SelectSeq(Tail(execParts(cmd)), notFlagArg)
            got == mergedParts(cmd, flags)
            n == Len(got) - Len(pos)
        IN  /\ n >= 1
            /\ SubSeq(got, n + 1, Len(got)) = pos
            /\ \A i \in 2..n : isFlagArg(got[i]) \/ got[i] \in Range(flags)

\* ----------------------------------------------------------- rewriter spec
MaxPieces == 4

\* contents are put together from these pieces
ContentPieces == {ExecKey, <<"a">>, <<"-">>, <<SP>>, <<LF>>, <<CR>>}

RECURSIVE Concat(_)
Concat(ps) == IF ps = <<>> THEN <<>> ELSE Head(ps) \o Concat(Tail(ps))

\* a desktop file with two sections, a TryExec key, a comment and an empty
\* line, with "\n" and with "\r\n" line ends
DesktopLines == << <<"[", "D", "]">>, <<"T", "r", "y">> \o ExecKey \o <<"b">>,
                   ExecKey \o <<"b", SP, "%", "U">>, <<>>, <<"#", "c">>,
                   <<"[", "A", "]">>, ExecKey \o <<"b">> >>
DesktopLF == Concat([i \in 1..Len(DesktopLines) |-> DesktopLines[i] \o <<LF>>])
DesktopCRLF == Concat([i \in 1..Len(DesktopLines) |-> DesktopLines[i] \o <<CR, LF>>])

ContentInputs ==
    {Concat(ps) : ps \in ListsUpTo(ContentPieces, MaxPieces)} \cup {DesktopLF, DesktopCRLF}
RewriteFlagInputs == ListsUpTo({<<"-">>, <<"a">>}, MaxFlags) \cup {<<OzoneFlag>>}

RewriteInit ==
    /\ content \in ContentInputs
    /\ flags \in RewriteFlagInputs
    /\ rout = Nil
    /\ rcount = 0
    /\ rpc = "input"
    /\ MergeIdle
    /\ SyncIdle
    /\ DiscIdle
    /\ RunIdle
    /\ FunIdle

\* one call modifyDesktopContent(content, flags)
Rewrite ==
    /\ rpc = "input"
    /\ rout' = modifyDesktopContent(content, flags).content
    /\ rcount' = modifyDesktopContent(content, flags).count
    /\ rpc' = "done"
    /\ UNCHANGED <<content, flags, mergeVars, syncVars, discVars, runVars, funVars>>

RewriteNext == Rewrite

SpecRewrite == RewriteInit /\ [][RewriteNext]_vars

\* ---------------------------------------------------- rewriter: the claims
noExecLine(data) == \A i \in 1..Len(scanLines(data)) : ~isExecLine(scanLines(data)[i])

\* every line of the content ends with "\n" and none with "\r\n"
lfTerminated(data) ==
    \/ data = <<>>
    \/ /\ Last(data) = LF
       /\ \A i \in 1..(Len(data) - 1) : ~(data[i] = CR /\ data[i + 1] = LF)

LinesPreserved ==
    rpc = "done" =>
        LET old == scanLines(content)
            new == scanLines(rout)
        IN  /\ Len(new) = Len(old)
            /\ \A i \in 1..Len(old) :
                   IF isExecLine(old[i]) THEN isExecLine(new[i]) ELSE new[i] = old[i]

\* C9 amended: the output has as many lines as the input; a line that is not
\* an Exec= line has the same text at the same position, less one carriage
\* return at the end of its text if it has one; an Exec= line is still an
\* Exec= line.
LinesPreservedUpToCR ==
    rpc = "done" =>
        LET old == scanLines(content)
            new == scanLines(rout)
        IN  /\ Len(new) = Len(old)
            /\ \A i \in 1..Len(old) :
                   IF isExecLine(old[i]) THEN isExecLine(new[i])
                   ELSE new[i] = dropCR(old[i])

LinesPreservedWitness ==
    /\ rpc = "done"
    /\ content = DesktopCRLF
    /\ flags = <<OzoneFlag>>
    /\ rcount = 2
    /\ rout # DesktopLF
    /\ scanLines(rout)[2] = DesktopLines[2]
    /\ scanLines(rout)[4] = <<>>

\* --------------------------------------------------------------- sync spec
MaxUsrPieces == 3
MaxRuns == 2

\* the user's file is put together from these pieces: the start of an Exec
\* line, a flag that is already there, line ends, a quoted argument that ends
\* in a multi-byte rune
SyncPieces == {ExecKey \o <<"x">>, <<SP, "-">>, <<LF>>, <<CR>>, <<SP, DQ, Wide, DQ>>}

UsrInputs == {Concat(ps) : ps \in ListsUpTo(SyncPieces, MaxUsrPieces)}
SysInputs == {<<>>, ExecKey \o <<"x", LF>>, ExecKey \o <<"x", SP, "-", LF>>,
              ExecKey \o <<"x", CR, LF>>, DesktopLF}
\* what a package update leaves in the system directory
SysUpdates == {Nil, ExecKey \o <<"x", "x", LF>>}
\* main calls processDesktopFile only with a non-empty flag list (lines 43-46)
SyncFlagInputs == {<< <<"-">> >>, << <<"a">> >>, << <<"-">>, <<"a">> >>}

SRC == "src"
DST == "dst"

SyncInit ==
    /\ sys \in SysInputs \cup {Nil}
    /\ usr \in UsrInputs \cup {Nil}
    /\ flags \in SyncFlagInputs
    /\ usr0 = usr
    /\ spc = "start"
    /\ ops = <<>>
    /\ outcome = None
    /\ prevOutcome = None
    /\ runs = 1
    /\ MergeIdle
    /\ RewriteIdle
    /\ DiscIdle
    /\ RunIdle
    /\ FunIdle

\* needsSeed as in copyAndModifyDesktopFile: the system file is read every time
needsSeedAlways(dst) == TRUE

\* line 72: the copy from the system directory is made only when os.Stat finds
\* no file at dstPath
needsSeed(dst) == dst = Nil

\* seedBytes through a line-by-line copy: every line end becomes "\n"
seedBytesByLine(input) == writeLines(scanLines(input))

\* lines 79-85: the bytes that os.WriteFile(dstPath, input, 0644) is given
seedBytes(input) == input

\* lines 72-77: neither file exists: return, no message
SeedSkip ==
    /\ spc = "start"
    /\ needsSeed(usr)
    /\ sys = Nil
    /\ ops' = << <<"stat", DST>>, <<"stat", SRC>> >>
    /\ outcome' = "skipped"
    /\ spc' = "done"
    /\ UNCHANGED <<sys, usr, usr0, prevOutcome, runs, flags, mergeVars, rewriteVars, discVars, runVars, funVars>>

\* lines 72-90: copy the system file; os.ReadFile or os.WriteFile may fail, a
\* failed write leaves no file or an empty one
SeedCopy ==
    /\ spc = "start"
    /\ needsSeed(usr)
    /\ sys # Nil
    /\ \E fail \in {"none", "read", "write"} :
          \/ /\ fail = "read"
             /\ ops' = << <<"stat", DST>>, <<"stat", SRC>>, <<"read", SRC>> >>
             /\ outcome' = "copy read failed"
             /\ spc' = "done"
             /\ usr' = usr
          \/ /\ fail = "write"
             /\ ops' = << <<"stat", DST>>, <<"stat", SRC>>, <<"read", SRC>>,
                          <<"write", DST, seedBytes(sys)>> >>
             /\ outcome' = "copy write failed"
             /\ spc' = "done"
             /\ usr' \in {usr, <<>>}
          \/ /\ fail = "none"
             /\ ops' = << <<"stat", DST>>, <<"stat", SRC>>, <<"read", SRC>>,
                          <<"write", DST, seedBytes(sys)>> >>
             /\ outcome' = None
             /\ spc' = "seeded"
             /\ usr' = seedBytes(sys)
    /\ UNCHANGED <<sys, usr0, prevOutcome, runs, flags, mergeVars, rewriteVars, discVars, runVars, funVars>>

\* line 72: the user's file exists, nothing is copied
SeedPresent ==
    /\ spc = "start"
    /\ ~needsSeed(usr)
    /\ ops' = << <<"stat", DST>> >>
    /\ spc' = "ready"
    /\ UNCHANGED <<sys, usr, usr0, outcome, prevOutcome, runs, flags, mergeVars, rewriteVars, discVars, runVars, funVars>>

\* lines 92-118: read the user's file, rewrite it, write it back if it changed
RewriteFile ==
    /\ spc \in {"ready", "seeded"}
    /\ \E fail \in {"none", "read", "write"} :
          LET m == modifyDesktopContent(usr, flags)
          IN  \/ /\ fail = "read"
                 /\ ops' = Append(ops, <<"read", DST>>)
                 /\ outcome' = "read failed"
                 /\ usr' = usr
              \/ /\ fail # "read"
                 /\ m.content = usr
                 /\ ops' = Append(ops, <<"read", DST>>)
                 /\ outcome' = "unchanged"
                 /\ usr' = usr
              \/ /\ fail = "write"
                 /\ m.content # usr
                 /\ ops' = ops \o << <<"read", DST>>, <<"write", DST, m.content>> >>
                 /\ outcome' = "write failed"
                 /\ usr' \in {usr, <<>>}
              \/ /\ fail = "none"
                 /\ m.content # usr
                 /\ ops' = ops \o << <<"read", DST>>, <<"write", DST, m.content>> >>
                 /\ outcome' = "updated"
                 /\ usr' = m.content
    /\ spc' = "done"
    /\ UNCHANGED <<sys, usr0, prevOutcome, runs, flags, mergeVars, rewriteVars, discVars, runVars, funVars>>

\* the program is run again: the next call for the same file and flags; in
\* between, a browser update may have replaced or removed the system file
NextRun ==
    /\ spc = "done"
    /\ runs < MaxRuns
    /\ runs' = runs + 1
    /\ sys' \in {sys} \cup SysUpdates
    /\ prevOutcome' = outcome
    /\ outcome' = None
    /\ usr0' = usr
    /\ ops' = <<>>
    /\ spc' = "start"
    /\ UNCHANGED <<usr, flags, mergeVars, rewriteVars, discVars, runVars, funVars>>

SyncNext == SeedSkip \/ SeedCopy \/ SeedPresent \/ RewriteFile \/ NextRun

SpecSync == SyncInit /\ [][SyncNext]_vars

\* -------------------------------------------------------- sync: the claims
wrote(o) == \E i \in 1..Len(o) : o[i][1] = "write"
touched(o, path) == \E i \in 1..Len(o) : o[i][2] = path

\* C5: after a call that ended "Updated" or "Up-to-date", the next call with
\* the same flags ends "Up-to-date", writes nothing and leaves the file as it
\* was (the user's file can be read).
SecondRunNoOp ==
    (spc = "done" /\ prevOutcome \in {"unchanged", "updated"} /\ outcome # "read failed") =>
        (outcome = "unchanged" /\ ~wrote(ops) /\ usr = usr0)

\* C6: with no file at the destination, a source file is first copied as it
\* is, before anything is rewritten; with no source file either the call
\* returns without reading or writing a file and without a warning.
SeedingStep ==
    /\ spc = "seeded" =>
          /\ usr0 = Nil /\ sys # Nil
          /\ usr = sys
          /\ ops = << <<"stat", DST>>, <<"stat", SRC>>, <<"read", SRC>>, <<"write", DST, sys>> >>
    /\ (spc = "done" /\ usr0 = Nil /\ sys = Nil) =>
          /\ outcome = "skipped"
          /\ usr = Nil
          /\ \A i \in 1..Len(ops) : ops[i][1] = "stat"
    /\ (spc = "done" /\ usr0 = Nil /\ sys # Nil
          /\ outcome \notin {"copy read failed", "copy write failed"}) =>
          /\ Len(ops) >= 5
          /\ SubSeq(ops, 3, 5) = << <<"read", SRC>>, <<"write", DST, sys>>, <<"read", DST>> >>

SeedingWitness ==
    /\ spc = "done" /\ runs = 1
    /\ usr0 = Nil
    /\ sys = ExecKey \o <<"x", CR, LF>>
    /\ outcome = "updated"
    /\ ops[4] = <<"write", DST, sys>>
    /\ usr # sys

\* C7: when the user's file exists, the call does not touch the system file,
\* and what it leaves in the user's file is decided by the user's file and the
\* flags alone (and by whether the read and the write succeed).
UserCopyOwned ==
    (spc = "done" /\ usr0 # Nil) =>
        /\ ~touched(ops, SRC)
        /\ LET m == modifyDesktopContent(usr0, flags).content
           IN  \/ outcome = "unchanged" /\ m = usr0 /\ usr = usr0
               \/ outcome = "updated" /\ m # usr0 /\ usr = m
               \/ outcome = "read failed" /\ usr = usr0
               \/ outcome = "write failed" /\ m # usr0 /\ usr \in {usr0, <<>>}

UserCopyOwnedWitness ==
    /\ spc = "done" /\ runs = 2
    /\ usr0 # Nil
    /\ sys # Nil /\ sys # usr0
    /\ modifyDesktopContent(sys, flags).content # modifyDesktopContent(usr0, flags).content
    /\ outcome = "unchanged"
    /\ prevOutcome = "updated"

\* ------------------------------------------------------------- discovery
\* filepath.Match(pattern, name) and the error it returns dropped ("matched,
\* _ ="): '*' stands for any run of runes, '?' for one rune, "[...]" for one
\* rune of the class (classes of single runes; ranges, negation and '\' are
\* left out), anything else for itself.  A malformed pattern (a class that is
\* not closed or is empty) gives ErrBadPattern and matched = false.
RECURSIVE Match(_, _)
Match(pattern, name) ==
    IF pattern = <<>> THEN name = <<>>
    ELSE CASE pattern[1] = "*" ->
                \E k \in 0..Len(name) : Match(Tail(pattern), SubSeq(name, k + 1, Len(name)))
           [] pattern[1] = "?" ->
                name # <<>> /\ Match(Tail(pattern), Tail(name))
           [] pattern[1] = "[" ->
                LET close == {i \in 3..Len(pattern) : pattern[i] = "]"}
                IN  IF Len(pattern) < 2 \/ pattern[2] = "]" \/ close = {} THEN FALSE
                    ELSE LET c == CHOOSE i \in close : \A j \in close : i <= j
                         IN  /\ name # <<>>
                             /\ name[1] \in {pattern[i] : i \in 2..(c - 1)}
                             /\ Match(SubSeq(pattern, c + 1, Len(pattern)), Tail(name))
           [] OTHER ->
                name # <<>> /\ name[1] = pattern[1] /\ Match(Tail(pattern), Tail(name))

\* lines 33-38: matched := false; for each pattern: matched = Match; break
RECURSIVE matchedAny(_, _)
matchedAny(pats, name) ==
    IF pats = <<>> THEN FALSE
    ELSE IF Match(Head(pats), name) THEN TRUE
    ELSE matchedAny(Tail(pats), name)

\* isExcluded looking at the first exclude pattern only
isExcludedByFirst(pats, name) == pats # <<>> /\ Match(Head(pats), name)

\* lines 45-51: excluded := false; for each exclude pattern: excluded = true; break
RECURSIVE isExcluded(_, _)
isExcluded(pats, name) ==
    IF pats = <<>> THEN FALSE
    ELSE IF Match(Head(pats), name) THEN TRUE
    ELSE isExcluded(Tail(pats), name)

\* lines 25-58 of lbdm's findPWADesktopFiles: the loop over the entries
RECURSIVE appendMembers(_, _, _, _)
appendMembers(entries, pats, excl, acc) ==
    IF entries = <<>> THEN acc
    ELSE LET entry == Head(entries)
             rest == Tail(entries)
         IN  IF entry.isDir THEN appendMembers(rest, pats, excl, acc)
             ELSE IF ~matchedAny(pats, entry.name) THEN appendMembers(rest, pats, excl, acc)
             ELSE IF isExcluded(excl, entry.name) THEN appendMembers(rest, pats, excl, acc)
             ELSE appendMembers(rest, pats, excl, Append(acc, entry.name))

\* main.go lines 199-243: the same loop, with the alreadyAdded test
RECURSIVE appendNewMembers(_, _, _, _)
appendNewMembers(entries, pats, excl, acc) ==
    IF entries = <<>> THEN acc
    ELSE LET entry == Head(entries)
             rest == Tail(entries)
         IN  IF entry.isDir THEN appendNewMembers(rest, pats, excl, acc)
             ELSE IF ~matchedAny(pats, entry.name) THEN appendNewMembers(rest, pats, excl, acc)
             ELSE IF isExcluded(excl, entry.name) THEN appendNewMembers(rest, pats, excl, acc)
             ELSE IF \E i \in 1..Len(acc) : acc[i] = entry.name
                  THEN appendNewMembers(rest, pats, excl, acc)
             ELSE appendNewMembers(rest, pats, excl, Append(acc, entry.name))

\* ---------------------------------------------------- discovery: inputs
MaxPatterns == 2
MaxEntries == 2

BravePattern == <<"b", "r", "a", "v", "e", "-", "*", ".", "d", "e", "s", "k", "t", "o", "p">>
BraveExclude == <<"b", "r", "a", "v", "e", "-", "b", "r", "o", "w", "s", "e", "r", "*", ".", "d", "e", "s", "k", "t", "o", "p">>
BraveYoutube == <<"b", "r", "a", "v", "e", "-", "y", "o", "u", "t", "u", "b", "e", ".", "d", "e", "s", "k", "t", "o", "p">>
BraveBeta == <<"b", "r", "a", "v", "e", "-", "b", "r", "o", "w", "s", "e", "r", "-", "b", "e", "t", "a", ".", "d", "e", "s", "k", "t", "o", "p">>
BadPattern == <<"b", "[">>
ClassPattern == <<"[", "b", "y", "]">>

\* the file names of the model, in the order os.ReadDir lists them (by name)
NameSeq == << <<"b">>, BraveBeta, BraveYoutube, <<"b", "y">>, <<"y">> >>
Names == {NameSeq[i] : i \in 1..Len(NameSeq)}

PatternPool == {<<"b", "*">>, <<"?">>, <<"*", "y">>}
IncludeInputs == ListsUpTo(PatternPool, MaxPatterns)
                     \cup {<<BravePattern>>, <<BadPattern, ClassPattern>>}
ExcludeInputs == ListsUpTo(PatternPool, MaxPatterns)
                     \cup {<<BraveExclude>>, <<BadPattern>>}
SubdirInputs == {{}, {<<"b", "y">>}}
SysListings == {{}, {<<"b", "y">>}, {BraveYoutube, <<"y">>}}

\* os.ReadDir: the entries of a directory, sorted by file name
readDir(files, subdirs) ==
    LET isEntry(n) == n \in files \cup subdirs
        names == SelectSeq(NameSeq, isEntry)
    IN  [i \in 1..Len(names) |-> [name |-> names[i], isDir |-> names[i] \in subdirs]]

DiscoverInit ==
    /\ userState \in {"ok", "absent", "unreadable"}
    /\ userFiles \in {f \in SUBSET Names : Cardinality(f) <= MaxEntries}
    /\ userSubdirs \in SubdirInputs
    /\ userSubdirs \cap userFiles = {}
    /\ userState # "ok" => (userFiles = {} /\ userSubdirs = {})
    /\ sysState \in {"ok", "absent", "unreadable"}
    /\ sysFiles \in SysListings
    /\ sysState # "ok" => sysFiles = {}
    /\ patterns \in IncludeInputs
    /\ excludePatterns \in ExcludeInputs
    /\ pwaFiles = <<>>
    /\ derr = FALSE
    /\ dpc = "input"
    /\ flags = <<OzoneFlag>>
    /\ MergeIdle
    /\ RewriteIdle
    /\ SyncIdle
    /\ RunIdle
    /\ FunIdle

\* lbdm: findPWADesktopFiles(userDir, patterns, excludePatterns), lines 13-61
FindUser ==
    /\ dpc = "input"
    /\ dpc' = "user"
    /\ IF userState = "absent" THEN pwaFiles' = <<>> /\ derr' = FALSE
       ELSE IF userState = "unreadable" THEN pwaFiles' = <<>> /\ derr' = TRUE
       ELSE /\ pwaFiles' = appendMembers(readDir(userFiles, userSubdirs),
                                         patterns, excludePatterns, <<>>)
            /\ derr' = FALSE
    /\ UNCHANGED <<userState, userFiles, userSubdirs, sysState, sysFiles,
                   patterns, excludePatterns, flags, mergeVars, rewriteVars, syncVars,
                   runVars, funVars>>

\* legacy: findPWADesktopFiles(systemDir, userDir, patterns, excludePatterns)
FindBoth ==
    /\ dpc = "input"
    /\ dpc' = "both"
    /\ LET fromSys == IF sysState # "ok" THEN <<>>
                      ELSE appendNewMembers(readDir(sysFiles, {}),
                                            patterns, excludePatterns, <<>>)
       IN  pwaFiles' = IF userState # "ok" THEN fromSys
                       ELSE appendNewMembers(readDir(userFiles, userSubdirs),
                                             patterns, excludePatterns, fromSys)
    /\ derr' = FALSE
    /\ UNCHANGED <<userState, userFiles, userSubdirs, sysState, sysFiles,
                   patterns, excludePatterns, flags, mergeVars, rewriteVars, syncVars,
                   runVars, funVars>>

DiscoverNext == FindUser \/ FindBoth

SpecDiscover == DiscoverInit /\ [][DiscoverNext]_vars

\* ---------------------------------------------------- discovery: claims
member(name) ==
    /\ \E i \in 1..Len(patterns) : Match(patterns[i], name)
    /\ \A i \in 1..Len(excludePatterns) : ~Match(excludePatterns[i], name)

listed == IF dpc = "user" THEN userFiles ELSE userFiles \cup sysFiles

\* C10: a file name of a scanned directory is in the list returned iff it
\* matches at least one include pattern and no exclude pattern, whatever the
\* order of the patterns; with include brave-*.desktop and exclude
\* brave-browser*.desktop, brave-youtube.desktop is in and
\* brave-browser-beta.desktop is out.
PatternMembership ==
    (dpc \in {"user", "both"} /\ ~derr) =>
        /\ \A n \in listed : (n \in Range(pwaFiles)) <=> member(n)
        /\ (patterns = <<BravePattern>> /\ excludePatterns = <<BraveExclude>>) =>
              /\ BraveYoutube \in listed => BraveYoutube \in Range(pwaFiles)
              /\ BraveBeta \notin Range(pwaFiles)

PatternMembershipWitness ==
    /\ dpc = "user"
    /\ patterns = <<BravePattern>> /\ excludePatterns = <<BraveExclude>>
    /\ userFiles = {BraveYoutube, BraveBeta}
    /\ pwaFiles = <<BraveYoutube>>

\* a name that the second exclude pattern alone rules out
ExcludeOrderWitness ==
    /\ dpc = "user"
    /\ Len(excludePatterns) = 2
    /\ \E n \in userFiles :
          /\ \E i \in 1..Len(patterns) : Match(patterns[i], n)
          /\ ~Match(excludePatterns[1], n)
          /\ Match(excludePatterns[2], n)
          /\ n \notin Range(pwaFiles)

\* the member names among the non-directory entries named by files, by name
membersOf(files) ==
    LET isMember(n) == n \in files /\ member(n)
    IN  SelectSeq(NameSeq, isMember)

\* members of the system directory, then those of the user directory that the
\* system directory does not have
firstSeen == membersOf(sysFiles) \o membersOf(userFiles \ sysFiles)

\* C11: discovery over the system and the user directory returns, without an
\* error, every member name of either directory exactly once, those of the
\* system directory first; a directory that is absent or cannot be read adds
\* nothing.
DiscoveryAcrossDirs ==
    dpc \in {"user", "both"} => (~derr /\ pwaFiles = firstSeen)

\* the same for the legacy findPWADesktopFiles alone, which is given both
\* directories
DiscoveryAcrossDirsLegacy ==
    dpc = "both" => (~derr /\ pwaFiles = firstSeen)

\* ------------------------------------------------------ getCombinedFlags
\* getCombinedFlags appending every flag, seen or not
addFlagsAll(st, setFlags) ==
    [combinedFlags |-> st.combinedFlags \o setFlags,
     seen |-> st.seen \cup Range(setFlags)]

\* flags.go lines 9-14: the flags of one set, each appended unless seen
RECURSIVE addFlags(_, _)
addFlags(st, setFlags) ==
    IF setFlags = <<>> THEN st
    ELSE LET flag == Head(setFlags)
         IN  IF flag \in st.seen THEN addFlags(st, Tail(setFlags))
             ELSE addFlags([combinedFlags |-> Append(st.combinedFlags, flag),
                            seen |-> st.seen \cup {flag}], Tail(setFlags))

\* flags.go lines 7-16: the loop over the names; a name without a set is passed
RECURSIVE combineLoop(_, _, _)
combineLoop(flagSetNames, flagSets, st) ==
    IF flagSetNames = <<>> THEN st
    ELSE IF Head(flagSetNames) \in DOMAIN flagSets
         THEN combineLoop(Tail(flagSetNames), flagSets,
                          addFlags(st, flagSets[Head(flagSetNames)]))
         ELSE combineLoop(Tail(flagSetNames), flagSets, st)

getCombinedFlags(flagSetNames, flagSets) ==
    combineLoop(flagSetNames, flagSets, [combinedFlags |-> <<>>, seen |-> {}]).combinedFlags

\* --------------------------------------------- the run of main over files
\* processDesktopFile as a whole: what it can leave in the user's file and
\* how it ends, for every way its reads and writes can fail
Failed == {"copy read failed", "copy write failed", "read failed", "write failed"}

\* lines 92-118, for a user file holding d
rewriteOutcomes(d, flagList) ==
    LET m == modifyDesktopContent(d, flagList).content
    IN  {[dst |-> d, outcome |-> "read failed"]}
        \cup IF m = d THEN {[dst |-> d, outcome |-> "unchanged"]}
             ELSE {[dst |-> m, outcome |-> "updated"],
                   [dst |-> d, outcome |-> "write failed"],
                   [dst |-> <<>>, outcome |-> "write failed"]}

\* lines 67-119
processOutcomes(src, dst, flagList) ==
    IF needsSeed(dst)
    THEN IF src = Nil THEN {[dst |-> Nil, outcome |-> "skipped"]}
         ELSE {[dst |-> Nil, outcome |-> "copy read failed"],
               [dst |-> Nil, outcome |-> "copy write failed"],
               [dst |-> <<>>, outcome |-> "copy write failed"]}
              \cup rewriteOutcomes(seedBytes(src), flagList)
    ELSE rewriteOutcomes(dst, flagList)

\* ----------------------------------------------------------- run: inputs
MaxBrowsers == 2
MaxFiles == 1

FileF == <<"f">>
FileG == <<"g">>
RunNameSeq == <<FileF, FileG>>
RunNames == {FileF, FileG}
SysFile == ExecKey \o <<"x", LF>>
UsrFile == ExecKey \o <<"x", SP, "-", LF>>
\* config.FlagSets: one flag set, "w"; the key "q" names no set
RunFlagSets == [k \in {"w"} |-> << <<"-">> >>]
BrowserInputs ==
    [flagSets : {<<"w">>},
     files : ListsUpTo(RunNames, MaxFiles),
     patterns : {<<>>, << <<"?">> >>},
     exclude : {<<>>}]
    \cup {[flagSets |-> <<"q">>, files |-> <<FileG>>, patterns |-> <<>>, exclude |-> <<>>]}
FsInputs ==
    {f \in [RunNames -> [sys : {Nil, SysFile}, usr : {Nil, UsrFile}]] :
        f[FileG].sys = SysFile}

\* os.ReadDir(userAppsDir): the user files that exist, by name
userEntries(fsys) ==
    LET exists(n) == fsys[n].usr # Nil
        names == SelectSeq(RunNameSeq, exists)
    IN  [i \in 1..Len(names) |-> [name |-> names[i], isDir |-> FALSE]]

RunInit ==
    /\ browsers \in ListsUpTo(BrowserInputs, MaxBrowsers)
    /\ bpos = 1
    /\ queue = <<>>
    /\ qpos = 0
    /\ fs \in FsInputs
    /\ fs0 = fs
    /\ log = <<>>
    /\ phase = "browser"
    /\ flags = <<>>
    /\ MergeIdle
    /\ RewriteIdle
    /\ SyncIdle
    /\ DiscIdle
    /\ FunIdle

\* main lines 42-46: a browser without flags is passed over
SkipBrowser ==
    /\ phase = "browser"
    /\ bpos <= Len(browsers)
    /\ getCombinedFlags(browsers[bpos].flagSets, RunFlagSets) = <<>>
    /\ bpos' = bpos + 1
    /\ UNCHANGED <<browsers, queue, qpos, fs, fs0, log, phase, flags,
                   mergeVars, rewriteVars, syncVars, discVars, funVars>>

\* main lines 42-65: the flags and allFilesToProcess of the browser; a
\* failing findPWADesktopFiles is warned about and adds no file
StartBrowser ==
    /\ phase = "browser"
    /\ bpos <= Len(browsers)
    /\ LET browser == browsers[bpos]
           combinedFlags == getCombinedFlags(browser.flagSets, RunFlagSets)
       IN  /\ combinedFlags # <<>>
           /\ flags' = combinedFlags
           /\ \E readable \in BOOLEAN :
                 queue' = IF Len(browser.patterns) > 0 /\ readable
                          THEN browser.files
                                 \o appendMembers(userEntries(fs), browser.patterns,
                                                  browser.exclude, <<>>)
                          ELSE browser.files
    /\ qpos' = 1
    /\ phase' = "files"
    /\ UNCHANGED <<browsers, bpos, fs, fs0, log,
                   mergeVars, rewriteVars, syncVars, discVars, funVars>>

\* nextIndex when a failure ends the loop over the files
nextIndexAbort(i, result, files) == IF result \in Failed THEN Len(files) + 1 ELSE i + 1

\* main line 67: the range loop goes on to the next file whatever the call did
nextIndex(i, result, files) == i + 1

\* main lines 67-69: one call of processDesktopFile
ProcessFile ==
    /\ phase = "files"
    /\ qpos <= Len(queue)
    /\ LET name == queue[qpos]
       IN  \E o \in processOutcomes(fs[name].sys, fs[name].usr, flags) :
              /\ fs' = [fs EXCEPT ![name].usr = o.dst]
              /\ log' = Append(log, [name |-> name, flags |-> flags,
                                     outcome |-> o.outcome])
              /\ qpos' = nextIndex(qpos, o.outcome, queue)
    /\ UNCHANGED <<browsers, bpos, queue, fs0, phase, flags,
                   mergeVars, rewriteVars, syncVars, discVars, funVars>>

\* main line 70: the files of the browser are done
NextBrowser ==
    /\ phase = "files"
    /\ qpos > Len(queue)
    /\ bpos' = bpos + 1
    /\ phase' = "browser"
    /\ UNCHANGED <<browsers, queue, qpos, fs, fs0, log, flags,
                   mergeVars, rewriteVars, syncVars, discVars, funVars>>

\* main lines 72-75
Finish ==
    /\ phase = "browser"
    /\ bpos > Len(browsers)
    /\ phase' = "done"
    /\ UNCHANGED <<browsers, bpos, queue, qpos, fs, fs0, log, flags,
                   mergeVars, rewriteVars, syncVars, discVars, funVars>>

RunNext == SkipBrowser \/ StartBrowser \/ ProcessFile \/ NextBrowser \/ Finish

\* a step of the loop over the files, told by its index alone: the step of
\* RunNext that moves qpos forward is the step of ProcessFile
FileStep ==
    /\ phase = "files"
    /\ qpos <= Len(queue)
    /\ qpos' \in (qpos + 1)..(Len(queue) + 1)

\* main is a sequential loop: it takes its next step whenever it has one
SpecRun ==
    /\ RunInit
    /\ [][RunNext]_vars
    /\ WF_vars(SkipBrowser \/ StartBrowser \/ NextBrowser \/ Finish)
    /\ WF_qpos(FileStep)

\* ----------------------------------------------------------- run: claims
\* the calls made for one file, in order
callsOf(name) ==
    LET isCall(c) == c.name = name
    IN  SelectSeq(log, isCall)

\* what the calls made for a file leave and report when no read or write fails
RECURSIVE cleanFrom(_, _, _)
cleanFrom(src, dst, calls) ==
    IF calls = <<>> THEN [dst |-> dst, outcomes |-> <<>>]
    ELSE LET o == CHOOSE r \in processOutcomes(src, dst, Head(calls).flags) :
                      r.outcome \notin Failed
             rest == cleanFrom(src, o.dst, Tail(calls))
         IN  [dst |-> rest.dst, outcomes |-> <<o.outcome>> \o rest.outcomes]

noFailure(name) == \A i \in 1..Len(callsOf(name)) : callsOf(name)[i].outcome \notin Failed

\* a file none of whose own calls failed is as in a run without any failure
Contained ==
    \A name \in RunNames :
        noFailure(name) =>
            LET calls == callsOf(name)
                clean == cleanFrom(fs0[name].sys, fs0[name].usr, calls)
            IN  /\ fs[name].usr = clean.dst
                /\ [i \in 1..Len(calls) |-> calls[i].outcome] = clean.outcomes
                /\ fs[name].sys = fs0[name].sys

\* the files of the browser are called one by one in the order of the list,
\* each once
AttemptedInOrder ==
    phase = "files" =>
        /\ qpos <= Len(queue) + 1
        /\ Len(log) >= qpos - 1
        /\ \A i \in 1..(qpos - 1) : log[Len(log) - (qpos - 1) + i].name = queue[i]

\* C12: every file of the list is attempted, in order and once; a failure on
\* one file leaves every file without a failure of its own as in a run
\* without failures; the run ends.
ErrorContainment == [](Contained /\ AttemptedInOrder) /\ <>(phase = "done")

ErrorContainmentWitness ==
    /\ phase = "done"
    /\ Len(log) >= 3
    /\ log[1].name = FileF /\ log[1].outcome = "write failed"
    /\ fs[FileF].usr = <<>>
    /\ log[2].name = FileG /\ log[2].outcome = "updated"
    /\ fs[FileG].usr = UsrFile

\* ------------------------------------------------- flag resolution: inputs
MaxKeys == 2
MaxSetFlags == 2

FlagAtoms == {<<"-">>, <<"-", "a">>, <<"b">>}
SetKeys == {"w", "g"}
\* "q" is a key that no table has
KeyInputs == ListsUpTo(SetKeys \cup {"q"}, MaxKeys)
TableInputs == UNION {[d -> ListsUpTo(FlagAtoms, MaxSetFlags)] : d \in SUBSET SetKeys}

FunUnused(except) ==
    /\ "names" \in except \/ (setNames = <<>> /\ setTable = <<>> /\ combined = <<>>)
    /\ "parse" \in except \/ parseResult = Nil
    /\ "trip" \in except \/ (tokList = <<>> /\ joined = Nil /\ reparsed = Nil)
    /\ "legacy" \in except \/ legacyOut = Nil

FlagsInit ==
    /\ setNames \in KeyInputs
    /\ setTable \in TableInputs
    /\ combined = <<>>
    /\ fpc = "input"
    /\ FunUnused({"names"})
    /\ flags = <<>>
    /\ MergeIdle
    /\ RewriteIdle
    /\ SyncIdle
    /\ DiscIdle
    /\ RunIdle

\* main line 42: combinedFlags := getCombinedFlags(browser.FlagSets, config.FlagSets)
Combine ==
    /\ fpc = "input"
    /\ combined' = getCombinedFlags(setNames, setTable)
    /\ fpc' = "combined"
    /\ UNCHANGED <<setNames, setTable, parseResult, tokList, joined, reparsed, legacyOut,
                   flags, mergeVars, rewriteVars, syncVars, discVars, runVars>>

FlagsNext == Combine

SpecFlags == FlagsInit /\ [][FlagsNext]_vars

\* ------------------------------------------------- flag resolution: claim
\* the flags of the named sets that the table has, set after set
namedFlags ==
    LET known(k) == k \in DOMAIN setTable
        keys == SelectSeq(setNames, known)
    IN  Concat([i \in 1..Len(keys) |-> setTable[keys[i]]])

\* s without every later occurrence of an element
firstOccurrences(s) ==
    LET isFirst(i) == \A j \in 1..(i - 1) : s[j] # s[i]
        idx == {i \in 1..Len(s) : isFirst(i)}
        nth(k) == CHOOSE i \in idx : Cardinality({j \in idx : j < i}) = k - 1
    IN  [k \in 1..Cardinality(idx) |-> s[nth(k)]]

\* C13: the list returned is the flags of the named sets in the order of the
\* keys and within each set, each flag at its first occurrence only; it has no
\* flag twice, and a key that the table does not have adds nothing.
FlagResolution ==
    fpc = "combined" =>
        /\ combined = firstOccurrences(namedFlags)
        /\ \A i, j \in 1..Len(combined) : combined[i] = combined[j] => i = j

FlagResolutionWitness ==
    /\ fpc = "combined"
    /\ setNames = <<"q", "w">>
    /\ setTable = [k \in {"w"} |-> << <<"-">>, <<"-">> >>]
    /\ combined = << <<"-">> >>

\* ------------------------------------------------------------- tokenizer
ParseInit ==
    /\ cmd \in CmdInputs
    /\ parseResult = Nil
    /\ fpc = "input"
    /\ FunUnused({"parse"})
    /\ flags = <<>>
    /\ out = Nil /\ out2 = Nil /\ mpc = "idle"
    /\ RewriteIdle
    /\ SyncIdle
    /\ DiscIdle
    /\ RunIdle

\* updateExecCommand line 72: parts, err := parseCommandLine(execCmd)
Parse ==
    /\ fpc = "input"
    /\ parseResult' = parseCommandLine(cmd)
    /\ fpc' = "parsed"
    /\ UNCHANGED <<setNames, setTable, combined, tokList, joined, reparsed, legacyOut,
                   flags, mergeVars, rewriteVars, syncVars, discVars, runVars>>

ParseNext == Parse

SpecParse == ParseInit /\ [][ParseNext]_vars

\* C14: parseCommandLine fails iff the command ends inside a quoted region, and
\* otherwise returns the non-empty tokens between unquoted spaces, quote
\* characters removed, the last token included whatever its last character is.
TokenizerResult ==
    fpc = "parsed" =>
        /\ parseResult.err = Tokenize(cmd).err
        /\ ~parseResult.err => parseResult.args = Tokenize(cmd).args

\* the same for a command whose last rune is one byte long
TokenizerResultNarrow ==
    (fpc = "parsed" /\ (cmd = <<>> \/ Last(cmd) # Wide)) =>
        /\ parseResult.err = Tokenize(cmd).err
        /\ ~parseResult.err => parseResult.args = Tokenize(cmd).args

\* ------------------------------------------------------ quoting round trip
MaxToks == 2
MaxTokLen == 2

\* tokens without a quote character, none of them empty
TokenInputs == StrsUpTo({"a", SP, Wide}, MaxTokLen) \ {<<>>}

TripInit ==
    /\ tokList \in ListsUpTo(TokenInputs, MaxToks)
    /\ joined = Nil
    /\ reparsed = Nil
    /\ fpc = "input"
    /\ FunUnused({"trip"})
    /\ flags = <<>>
    /\ MergeIdle
    /\ RewriteIdle
    /\ SyncIdle
    /\ DiscIdle
    /\ RunIdle

\* updateExecCommand lines 117-124 on the tokens, then line 72 of the next run
\* on the command written
RoundTrip ==
    /\ fpc = "input"
    /\ joined' = serialize(tokList)
    /\ reparsed' = parseCommandLine(serialize(tokList))
    /\ fpc' = "tripped"
    /\ UNCHANGED <<setNames, setTable, combined, parseResult, tokList, legacyOut,
                   flags, mergeVars, rewriteVars, syncVars, discVars, runVars>>

TripNext == RoundTrip

SpecTrip == TripInit /\ [][TripNext]_vars

\* C15: tokens without quote characters, serialized as updateExecCommand does
\* and tokenized again by parseCommandLine, come back as they were.
QuotingRoundTrip ==
    fpc = "tripped" => (~reparsed.err /\ reparsed.args = tokList)

\* the same when the serialized command does not end in a multi-byte rune
QuotingRoundTripNarrow ==
    (fpc = "tripped" /\ (joined = <<>> \/ Last(joined) # Wide)) =>
        (~reparsed.err /\ reparsed.args = tokList)

\* ------------------------------------------- merge: unterminated quote
\* sub occurs in s as a run of neighbouring elements
IsInfix(sub, s) ==
    \E i \in 0..(Len(s) - Len(sub)) : SubSeq(s, i + 1, i + Len(sub)) = sub

\* C16: for a command that ends inside a quoted region and a non-empty flag
\* list, the merge returns a command: the first white-space piece of the
\* trimmed command is still first, every desired flag follows it, and every
\* piece of the command is still there.
UnterminatedFallback ==
    (merged /\ flags # <<>> /\ Tokenize(TrimSpace(cmd)).err) =>
        LET pieces == Fields(TrimSpace(cmd))
            got == Fields(out)
        IN  /\ out # Nil
            /\ got # <<>>
            /\ got[1] = pieces[1]
            /\ \A i \in 1..Len(flags) : IsInfix(Fields(requote(flags[i])), Tail(got))
            /\ \A i \in 1..Len(pieces) : Count(pieces[i], got) >= Count(pieces[i], pieces)

UnterminatedFallbackWitness ==
    /\ mpc = "merged"
    /\ cmd = UnclosedCmd
    /\ flags = <<OzoneFlag>>
    /\ parseCommandLine(cmd).err
    /\ out = <<"/", "u", "s", "r", "/", "b", "i", "n", "/", "a", "p", "p", SP>>
               \o OzoneFlag \o <<SP, DQ, "f", "o", "o">>

\* --------------------------------------------- rewriter: the line count
\* the lines whose text in the output is not their text in the input
changedLines ==
    LET old == scanLines(content)
        new == scanLines(rout)
    IN  {i \in 1..Len(old) : i > Len(new) \/ new[i] # old[i]}

\* C17: the count returned is the number of lines that changed.
ModifiedCount ==
    rpc = "done" => rcount = Cardinality(changedLines)

\* the count returned is the number of lines that begin with Exec=, changed or
\* not
CountsExecLines ==
    rpc = "done" =>
        rcount = Cardinality({i \in 1..Len(scanLines(content)) :
                                 isExecLine(scanLines(content)[i])})

\* ------------------------------------------- legacy rewrite (main.go)
\* the first index from p on at which s has no white space, Len(s) + 1 if none
skipSpace(s, p) ==
    LET at == {i \in p..Len(s) : ~IsSpace(s[i])}
    IN  IF at = {} THEN Len(s) + 1 ELSE CHOOSE i \in at : \A j \in at : i <= j

\* the last index of the run of non-space runes that starts at p; p - 1 if
\* there is none
wordEnd(s, p) ==
    LET at == {i \in p..Len(s) : IsSpace(s[i])}
    IN  IF at = {} THEN Len(s) ELSE (CHOOSE i \in at : \A j \in at : i <= j) - 1

\* where a match of one of the three patterns of removeFlagFromCommand that
\* starts at p ends, 0 if none starts there.  The patterns are `\s*` and the
\* quoted flag name, followed by
\*   "equal"      `=[^\s]*`
\*   "space"      `\s+[^\s-][^\s]*`
\*   "standalone" `(?:\s|$)`
\* (the flag name does not begin with white space)
matchEndAt(s, p, kind, flagName) ==
    LET q == skipSpace(s, p)
        e == q + Len(flagName) - 1
    IN  IF e > Len(s) \/ SubSeq(s, q, e) # flagName THEN 0
        ELSE CASE kind = "equal" ->
                    IF e < Len(s) /\ s[e + 1] = "=" THEN wordEnd(s, e + 2) ELSE 0
               [] kind = "space" ->
                    IF e < Len(s) /\ IsSpace(s[e + 1])
                    THEN LET w == skipSpace(s, e + 1)
                         IN  IF w <= Len(s) /\ s[w] # "-" THEN wordEnd(s, w) ELSE 0
                    ELSE 0
               [] OTHER ->
                    IF e = Len(s) THEN e
                    ELSE IF IsSpace(s[e + 1]) THEN e + 1 ELSE 0

RECURSIVE replaceAll(_, _, _, _, _)
\* regexp ReplaceAllString: the matches from left to right, none overlapping
replaceAll(s, p, kind, flagName, repl) ==
    IF p > Len(s) THEN <<>>
    ELSE LET e == matchEndAt(s, p, kind, flagName)
         IN  IF e = 0 THEN <<s[p]>> \o replaceAll(s, p + 1, kind, flagName, repl)
             ELSE repl \o replaceAll(s, e + 1, kind, flagName, repl)

\* removeFlagFromCommand with the "--flag value" pattern left out
removeFlagKeepValue(command, flagName) ==
    LET c1 == replaceAll(command, 1, "equal", flagName, <<>>)
        c3 == replaceAll(c1, 1, "standalone", flagName, <<SP>>)
    IN  TrimSpace(c3)

\* main.go lines 355-372
removeFlagFromCommand(command, flagName) ==
    LET c1 == replaceAll(command, 1, "equal", flagName, <<>>)
        c2 == replaceAll(c1, 1, "space", flagName, <<>>)
        c3 == replaceAll(c2, 1, "standalone", flagName, <<SP>>)
    IN  TrimSpace(c3)

\* strings.Split(flag, "=")[0]
flagBase(flag) ==
    LET at == {i \in 1..Len(flag) : flag[i] = "="}
    IN  IF at = {} THEN flag
        ELSE SubSeq(flag, 1, (CHOOSE i \in at : \A j \in at : i <= j) - 1)

RECURSIVE removeFlags(_, _)
\* main.go lines 299-303: every desired flag's base name is removed
removeFlags(execCmd, flagList) ==
    IF flagList = <<>> THEN execCmd
    ELSE removeFlags(removeFlagFromCommand(execCmd, flagBase(Head(flagList))),
                     Tail(flagList))

\* main.go lines 326-353
addFlagsToExecCommand(execCmd, flagList) ==
    IF Len(flagList) = 0 THEN execCmd
    ELSE LET parts == Fields(execCmd)
         IN  IF Len(parts) = 0 THEN execCmd
             ELSE Join(<<parts[1]>> \o Fields(Join(flagList, <<SP>>)) \o Tail(parts),
                       <<SP>>)

\* main.go lines 296-307: the Exec command copyAndModifyDesktopFile writes
legacyExec(execCmd, flagList) ==
    addFlagsToExecCommand(removeFlags(execCmd, flagList), flagList)

\* --------------------------------------------------- legacy rewrite: inputs
MaxLegacyPieces == 5

LegacyPieces == {<<"x">>, <<SP>>, <<"-", "a">>, <<"b">>, <<"=">>}
LegacyCmds ==
    {Concat(ps) : ps \in ListsUpTo(LegacyPieces, MaxLegacyPieces)}
        \cup {BraveCmd, BravePatched}
LegacyFlagInputs ==
    ListsUpTo({<<"-", "a">>, <<"-", "a", "=", "b">>}, MaxFlags) \cup {<<OzoneFlag>>}

LegacyInit ==
    /\ cmd \in LegacyCmds
    /\ flags \in LegacyFlagInputs
    /\ legacyOut = Nil
    /\ fpc = "input"
    /\ FunUnused({"legacy"})
    /\ out = Nil /\ out2 = Nil /\ mpc = "idle"
    /\ RewriteIdle
    /\ SyncIdle
    /\ DiscIdle
    /\ RunIdle

\* main.go lines 294-308: the Exec line of copyAndModifyDesktopFile
LegacyRewrite ==
    /\ fpc = "input"
    /\ legacyOut' = legacyExec(cmd, flags)
    /\ fpc' = "legacy"
    /\ UNCHANGED <<setNames, setTable, combined, parseResult, tokList, joined, reparsed,
                   flags, mergeVars, rewriteVars, syncVars, discVars, runVars>>

LegacyNext == LegacyRewrite

SpecLegacy == LegacyInit /\ [][LegacyNext]_vars

\* ---------------------------------------------------- legacy rewrite: claim
\* C18: after the removal of every desired flag by name and the insertion of
\* the desired list, the command is the executable, the desired flags in
\* order, then the rest, and the tokens of the command that do not begin with
\* "-" are all still there, in their order (the command begins with its
\* executable).
LegacyKeepsPositionals ==
    (fpc = "legacy" /\ flags # <<>> /\ Fields(cmd) # <<>>
       /\ notFlagArg(Fields(cmd)[1])) =>
        LET toks == Fields(cmd)
            got == Fields(legacyOut)
        IN  /\ Len(got) >= 1 + Len(flags)
            /\ got[1] = toks[1]
            /\ SubSeq(got, 2, 1 + Len(flags)) = flags
            /\ SelectSeq(SubSeq(got, 2 + Len(flags), Len(got)), notFlagArg)
                  = SelectSeq(Tail(toks), notFlagArg)

\* the same for a command in which a desired flag's name occurs only as the
\* whole of a token or as the part of a token before "=", and no token
\* that does not begin with "-" follows a token that is such a name
LegacyKeepsPositionalsNarrow ==
    (fpc = "legacy" /\ flags # <<>> /\ Fields(cmd) # <<>>
       /\ LET toks == Fields(cmd)
          IN  /\ notFlagArg(toks[1])
              /\ \A i \in 1..Len(flags) :
                    /\ \A k \in 1..Len(toks) :
                          IsInfix(flagBase(flags[i]), toks[k]) =>
                              (toks[k] = flagBase(flags[i]) \/ flagBase(toks[k]) = flagBase(flags[i]))
                    /\ \A k \in 1..(Len(toks) - 1) :
                          toks[k] = flagBase(flags[i]) => isFlagArg(toks[k + 1])) =>
        LET toks == Fields(cmd)
            got == Fields(legacyOut)
        IN  /\ got[1] = toks[1]
            /\ SubSeq(got, 2, 1 + Len(flags)) = flags
            /\ SelectSeq(SubSeq(got, 2 + Len(flags), Len(got)), notFlagArg)
                  = SelectSeq(Tail(toks), notFlagArg)

====
